---- MODULE Spec2Model ----
(***************************************************************************)
(* A model of pykg2vec/utils/bayesian_optimizer.py: the BaysOptimizer      *)
(* driver (constructor, optimize, get_loss, return_best) together with the *)
(* behaviour of the collaborators it calls (hyperopt's fmin / Trials /     *)
(* space_eval, the Trainer and its configuration object).                  *)
(*                                                                         *)
(* Hyperparameter values are integers; Python's True and False are 1 and 0 *)
(* (as they are in Python), and None is written None.                      *)
(***************************************************************************)
EXTENDS Integers, Sequences, FiniteSets, TLC

\* ---------------------------------------------------------------- bounds
\* largest value of args.max_number_trials
MaxTrials == 2
\* number of optimize() calls made on one optimizer
MaxCalls == 2
\* tune_model returns a loss in 0..MaxLoss
MaxLoss == 1

\* ------------------------------------------------------- module constants
None == -1
False == 0
True == 1

modelMap ==
  [complex |-> "Complex", conve |-> "ConvE", hole |-> "HoLE",
   distmult |-> "DistMult", kg2e |-> "KG2E", ntn |-> "NTN",
   proje_pointwise |-> "ProjE_pointwise", rescal |-> "Rescal",
   rotate |-> "RotatE", slm |-> "SLM", sme |-> "SME", transd |-> "TransD",
   transe |-> "TransE", transg |-> "TransG", transh |-> "TransH",
   transm |-> "TransM", transr |-> "TransR", tucker |-> "TuckER"]

\* modelMap.values(), in the dictionary's order
modelMapValues ==
  <<"Complex", "ConvE", "HoLE", "DistMult", "KG2E", "NTN", "ProjE_pointwise",
    "Rescal", "RotatE", "SLM", "SME", "TransD", "TransE", "TransG", "TransH",
    "TransM", "TransR", "TuckER">>

configMap ==
  [complex |-> "ComplexConfig", conve |-> "ConvEConfig", hole |-> "HoLEConfig",
   distmult |-> "DistMultConfig", kg2e |-> "KG2EConfig", ntn |-> "NTNConfig",
   proje_pointwise |-> "ProjE_pointwiseConfig", rescal |-> "RescalConfig",
   rotate |-> "RotatEConfig", slm |-> "SLMConfig", sme |-> "SMEConfig",
   transd |-> "TransDConfig", transe |-> "TransEConfig",
   transg |-> "TransGConfig", transh |-> "TransHConfig",
   transm |-> "TransMConfig", transr |-> "TransRConfig",
   tucker |-> "TuckERConfig"]

\* hypMap as it would be with the entry for transr left out
hypMapWithoutTransR ==
  [complex |-> "ComplexParams", conve |-> "ConvEParams", hole |-> "HoLEParams",
   distmult |-> "DistMultParams", kg2e |-> "KG2EParams", ntn |-> "NTNParams",
   proje_pointwise |-> "ProjE_pointwiseParams", rescal |-> "RescalParams",
   rotate |-> "RotatEParams", slm |-> "SLMParams", sme |-> "SMEParams",
   transd |-> "TransDParams", transe |-> "TransEParams",
   transg |-> "TransGParams", transh |-> "TransHParams",
   transm |-> "TransMParams", tucker |-> "TuckERParams"]
hypMap ==
  [complex |-> "ComplexParams", conve |-> "ConvEParams", hole |-> "HoLEParams",
   distmult |-> "DistMultParams", kg2e |-> "KG2EParams", ntn |-> "NTNParams",
   proje_pointwise |-> "ProjE_pointwiseParams", rescal |-> "RescalParams",
   rotate |-> "RotatEParams", slm |-> "SLMParams", sme |-> "SMEParams",
   transd |-> "TransDParams", transe |-> "TransEParams",
   transg |-> "TransGParams", transh |-> "TransHParams",
   transm |-> "TransMParams", transr |-> "TransRParams",
   tucker |-> "TuckERParams"]

\* the list the constructor tests args.model.lower() against
Denylist == {"tucker", "tucker_v2", "conve", "convkb", "proje_pointwise"}

\* ------------------------------------------------------------ the inputs
\* values of args.model: every key of modelMap, differently cased spellings,
\* the denylisted names that are no keys, and names that resolve to nothing
ModelArgs ==
  (DOMAIN modelMap) \cup
  {"TransE", "TuckER", "ConvKB", "Tucker_V2", "tucker_v2", "convkb",
   "transx", "HolE2"}

\* the names optimize() is run for: optimize, get_loss and return_best never
\* read the model's name, so one tunable name stands for all of them
RunModels == {"TransE", "tucker", "transx"}

\* str.lower() on the names of ModelArgs
\* (LowerIdentity: the name compared as given, without lower())
LowerIdentity(s) == s
lower(s) ==
  CASE s = "TransE" -> "transe"
    [] s = "TuckER" -> "tucker"
    [] s = "ConvKB" -> "convkb"
    [] s = "Tucker_V2" -> "tucker_v2"
    [] s = "HolE2" -> "hole2"
    [] OTHER -> s

\* search-space distributions: hp.choice(label, options) draws an index into
\* options; hp.quniform / hp.randint-like distributions draw the value itself
Choice(opts) == [kind |-> "choice", options |-> opts, low |-> 0, high |-> 0]
QUniform(lo, hi) == [kind |-> "quniform", options |-> <<>>, low |-> lo, high |-> hi]

\* the search_space attribute of the hyperparameter classes hypMap names
SearchSpaces ==
  { [epochs |-> Choice(<<10>>), margin |-> QUniform(2, 3)],
    [L1_flag |-> Choice(<<True, False>>), save_model |-> Choice(<<True>>)] }

\* config attributes get_loss forces, with the values it forces them to
TestNum == 1000
DebugEpochs == 1
ForcedFlags == {"disp_result", "disp_summary", "save_model"}

ConfigKeys ==
  UNION {DOMAIN s : s \in SearchSpaces} \cup ForcedFlags \cup {"test_num", "epochs"}

\* the configuration object self.config_obj(kge_args) builds: the argument
\* parser's defaults as attributes, and the hyperparameters dictionary
InitialConfig ==
  [attrs |-> [k \in ConfigKeys |->
                CASE k = "epochs" -> 100
                  [] k = "disp_result" -> False
                  [] k = "disp_summary" -> True
                  [] k = "save_model" -> True
                  [] k = "test_num" -> TestNum
                  [] OTHER -> None],
   hyperparameters |-> [k \in ConfigKeys |-> IF k = "epochs" THEN 100 ELSE None]]

VARIABLES
  args,          \* the args object: model, debug, max_number_trials
  env,           \* what the installation resolves: importable modules, search space
  pc,            \* position of the caller / of the running method
  self,          \* the optimizer's attributes (its __dict__), as a record
  hyper_params,  \* __init__'s local: <<>> is None, <<s>> the params object
  err,           \* the exception __init__ or the last optimize() raised, or "None"
  out,           \* what the constructor printed
  calls,         \* number of optimize() calls made so far
  trials,        \* optimize's local Trials object: the trial documents
  trial,         \* the trial fmin is evaluating: <<>> or <<document>>
  csv,           \* the file <result>/<model_name>/trials.csv
  ret,           \* the last return_best() since optimize(): its value or its raise
  evalLog,       \* history: the get_loss invocations of the last optimize() call
  steps,         \* history: the steps completed in the last optimize() call
  pre            \* history: trials.csv and best_result when optimize() was called

ctor == <<args, env, hyper_params, out>>
run == <<calls, trials, trial, csv, ret, evalLog, steps, pre>>
vars == <<args, env, pc, self, hyper_params, err, out,
          calls, trials, trial, csv, ret, evalLog, steps, pre>>

Bound(a) == a \in DOMAIN self

NotCalled == [called |-> FALSE, raised |-> FALSE, value |-> <<>>]

\* the state before BaysOptimizer(args) runs, for args.model drawn from models
InitWith(models) ==
  /\ args \in [model : models, debug : BOOLEAN, max_number_trials : 0..MaxTrials]
  /\ env \in [modelOk : BOOLEAN, configOk : BOOLEAN, hypOk : BOOLEAN,
              space : SearchSpaces]
  /\ pc = "init_check"
  /\ self = [a \in {} |-> None]
  /\ hyper_params = <<>>
  /\ err = "None"
  /\ out = <<>>
  /\ calls = 0
  /\ trials = <<>>
  /\ trial = <<>>
  /\ csv = [exists |-> FALSE, rows |-> <<>>]
  /\ ret = NotCalled
  /\ evalLog = <<>>
  /\ steps = <<>>
  /\ pre = [csv |-> [exists |-> FALSE, rows |-> <<>>], best_result |-> <<>>]

Init == InitWith(RunModels)
InitConstruct == InitWith(ModelArgs)

\* ------------------------------------------------------------- __init__
Raise(e) == pc' = "raised" /\ err' = e

NotImplementedMessage(model_name) ==
  [text |-> "not implemented! Select from:", name |-> model_name,
   names |-> modelMapValues]

\* lines 106-107: the denylist test
InitCheck ==
  /\ pc = "init_check"
  /\ IF lower(args.model) \in Denylist
       THEN Raise("Exception")
       ELSE pc' = "init_bind" /\ err' = err
  /\ UNCHANGED <<args, env, self, hyper_params, out, run>>

\* lines 109-112
InitBind ==
  /\ pc = "init_bind"
  /\ self' = self @@ [args |-> args, knowledge_graph |-> "KnowledgeGraph"]
  /\ hyper_params' = <<>>
  /\ pc' = "init_resolve"
  /\ UNCHANGED <<args, env, err, out, run>>

\* lines 113-121: the three lookups, and the handler of ModuleNotFoundError
InitResolve ==
  /\ pc = "init_resolve"
  /\ LET model_name == lower(args.model)
         caught == /\ out' = Append(out, NotImplementedMessage(model_name))
                   /\ pc' = "init_trainer"
                   /\ err' = err
                   /\ hyper_params' = hyper_params
         keyError == Raise("KeyError") /\ UNCHANGED <<hyper_params, out>>
         model_obj == [model_obj |-> modelMap[model_name]]
         config_obj == [config_obj |-> configMap[model_name]]
     IN IF model_name \notin DOMAIN modelMap
          THEN keyError /\ self' = self
        ELSE IF ~env.modelOk
          THEN caught /\ self' = self
        ELSE IF ~env.configOk
          THEN caught /\ self' = self @@ model_obj
        ELSE IF model_name \notin DOMAIN configMap
          THEN keyError /\ self' = self @@ model_obj
        ELSE IF ~env.hypOk
          THEN caught /\ self' = self @@ model_obj @@ config_obj
        ELSE IF model_name \notin DOMAIN hypMap
          THEN keyError /\ self' = self @@ model_obj @@ config_obj
        ELSE /\ self' = self @@ model_obj @@ config_obj
             /\ hyper_params' = <<[name |-> hypMap[model_name],
                                   search_space |-> env.space]>>
             /\ pc' = "init_trainer"
             /\ UNCHANGED <<err, out>>
  /\ UNCHANGED <<args, env, run>>

\* lines 123-128: the config and the trainer
InitTrainer ==
  /\ pc = "init_trainer"
  /\ IF ~env.configOk
       THEN Raise("ModuleNotFoundError") /\ self' = self
     ELSE IF ~Bound("config_obj")
       THEN Raise("AttributeError") /\ self' = self
     ELSE /\ self' = self @@ [trainer |-> [model |-> self.model_obj,
                                           config |-> InitialConfig,
                                           debug |-> self.args.debug,
                                           tuning |-> TRUE]]
          /\ pc' = "init_space"
          /\ err' = err
  /\ UNCHANGED <<args, env, hyper_params, out, run>>

\* line 131 (MaxEvalsIgnoringDebug: the same without the debug test)
MaxEvalsIgnoringDebug(a) == a.max_number_trials
MaxEvals(a) == IF ~a.debug THEN a.max_number_trials ELSE 1

\* lines 130-131
InitSpace ==
  /\ pc = "init_space"
  /\ IF hyper_params = <<>>
       THEN Raise("AttributeError") /\ self' = self
       ELSE /\ self' = self @@ [search_space |-> hyper_params[1].search_space,
                                max_evals |-> MaxEvals(self.args)]
            /\ pc' = "idle"
            /\ err' = err
  /\ UNCHANGED <<args, env, hyper_params, out, run>>


Construct == InitCheck \/ InitBind \/ InitResolve \/ InitTrainer \/ InitSpace

\* ------------------------------------------------------------- hyperopt
\* the raw values a distribution draws: an index for hp.choice
RawValues(d) ==
  IF d.kind = "choice" THEN 0..(Len(d.options) - 1) ELSE d.low..d.high

\* the values a distribution produces once decoded
Produces(d) ==
  IF d.kind = "choice" THEN {d.options[i] : i \in 1..Len(d.options)}
  ELSE d.low..d.high

\* the raw assignments tpe.suggest can propose for a space
Points(space) ==
  {v \in [DOMAIN space -> UNION {RawValues(space[k]) : k \in DOMAIN space}] :
     \A k \in DOMAIN space : v[k] \in RawValues(space[k])}

\* space_eval(space, vals): hp.choice indices become the options they select
\* (space_eval_raw: the raw values returned undecoded)
space_eval_raw(space, vals) == vals
space_eval(space, vals) ==
  [k \in DOMAIN space |->
     IF space[k].kind = "choice" THEN space[k].options[vals[k] + 1] ELSE vals[k]]

\* {k: v[0] for k, v in trial['misc']['vals'].items()}
FirstOfEach(vals) == [k \in DOMAIN vals |-> vals[k][1]]

\* the document fmin creates for a suggested point
NewTrial(v) ==
  [misc |-> [vals |-> [k \in DOMAIN v |-> <<v[k]>>]],
   result |-> [loss |-> None, status |-> "new"]]

Min(S) == CHOOSE x \in S : \A y \in S : x <= y

\* Trials.argmin: the raw values of the first trial of least loss
\* (ArgLast: the raw values of the last trial instead)
ArgLast(ts) == FirstOfEach(ts[Len(ts)].misc.vals)
Argmin(ts) ==
  LET best == Min({i \in 1..Len(ts) : \A j \in 1..Len(ts) :
                      ts[i].result.loss <= ts[j].result.loss})
  IN FirstOfEach(ts[best].misc.vals)

\* ------------------------------------------------------------- get_loss
\* lines 168-170 (CopyParamsAttrsOnly: line 170 left out)
CopyParamsAttrsOnly(config, params) ==
  [attrs |-> [k \in DOMAIN config.attrs |->
                IF k \in DOMAIN params THEN params[k] ELSE config.attrs[k]],
   hyperparameters |-> config.hyperparameters]
CopyParams(config, params) ==
  [attrs |-> [k \in DOMAIN config.attrs |->
                IF k \in DOMAIN params THEN params[k] ELSE config.attrs[k]],
   hyperparameters |-> [k \in DOMAIN config.hyperparameters |->
                IF k \in DOMAIN params THEN params[k]
                ELSE config.hyperparameters[k]]]

\* lines 173-180
ForceSettings(config, debug) ==
  [attrs |-> [k \in DOMAIN config.attrs |->
                CASE k \in ForcedFlags -> False
                  [] k = "test_num" -> TestNum
                  [] k = "epochs" /\ debug -> DebugEpochs
                  [] OTHER -> config.attrs[k]],
   hyperparameters |-> [k \in DOMAIN config.hyperparameters |->
                IF k = "epochs" /\ debug THEN DebugEpochs
                ELSE config.hyperparameters[k]]]

\* lines 168-180: the sampled values first, the forced settings after them
\* (ConfigureForcedFirst: the two blocks in the other order)
ConfigureForcedFirst(config, params, debug) ==
  CopyParams(ForceSettings(config, debug), params)
Configure(config, params, debug) ==
  ForceSettings(CopyParams(config, params), debug)

Losses == 0..MaxLoss

\* the point get_loss is called with for the trial in flight
Params == space_eval(self.search_space, FirstOfEach(trial[1].misc.vals))

\* ------------------------------------------------------------- optimize
\* lines 135-137: a caller invokes optimize()
optimize ==
  /\ pc = "idle"
  /\ calls < MaxCalls
  /\ calls' = calls + 1
  /\ trials' = <<>>
  /\ trial' = <<>>
  /\ err' = "None"
  /\ ret' = NotCalled
  /\ evalLog' = <<>>
  /\ steps' = <<>>
  /\ pre' = [csv |-> csv,
             best_result |-> IF Bound("best_result") THEN <<self.best_result>> ELSE <<>>]
  /\ pc' = "fmin"
  /\ UNCHANGED <<ctor, self, csv>>

\* fmin's loop: with fewer than max_evals trials, suggest a point and call fn
FminSuggest ==
  /\ pc = "fmin"
  /\ Len(trials) < self.max_evals
  /\ \E v \in Points(self.search_space) : trial' = <<NewTrial(v)>>
  /\ pc' = "get_loss"
  /\ UNCHANGED <<ctor, self, err, calls, trials, csv, ret, evalLog, steps, pre>>

\* lines 164-180: get_loss rewrites the trainer's configuration
get_loss ==
  /\ pc = "get_loss"
  /\ self' = [self EXCEPT !.trainer.config = Configure(@, Params, self.args.debug)]
  /\ evalLog' = Append(evalLog, [params |-> Params, loss |-> None])
  /\ steps' = Append(steps, "copy")
  /\ pc' = "build_model"
  /\ UNCHANGED <<ctor, err, calls, trials, trial, csv, ret, pre>>

\* line 183
build_model ==
  /\ pc = "build_model"
  /\ steps' = Append(steps, "build_model")
  /\ pc' = "summary_hyperparameter"
  /\ UNCHANGED <<ctor, self, err, calls, trials, trial, csv, ret, evalLog, pre>>

\* line 184
summary_hyperparameter ==
  /\ pc = "summary_hyperparameter"
  /\ steps' = Append(steps, "summary_hyperparameter")
  /\ pc' = "tune_model"
  /\ UNCHANGED <<ctor, self, err, calls, trials, trial, csv, ret, evalLog, pre>>

\* lines 186-188: tune_model returns the loss, and fmin records the result
tune_model ==
  /\ pc = "tune_model"
  /\ \E loss \in Losses :
       /\ trials' = Append(trials, [trial[1] EXCEPT
                                      !.result = [loss |-> loss, status |-> "ok"]])
       /\ evalLog' = [evalLog EXCEPT ![Len(evalLog)].loss = loss]
  /\ trial' = <<>>
  /\ steps' = Append(steps, "tune_model")
  /\ pc' = "fmin"
  /\ UNCHANGED <<ctor, self, err, calls, csv, ret, pre>>

\* a trainer call raises: the exception leaves get_loss, fmin and optimize
\* (TrialFailsCaught: fmin swallowing the exception and going on instead)
TrialFailsCaught ==
  /\ pc \in {"build_model", "summary_hyperparameter", "tune_model"}
  /\ trial' = <<>>
  /\ pc' = "fmin"
  /\ UNCHANGED <<ctor, self, err, calls, trials, csv, ret, evalLog, steps, pre>>
TrialFails ==
  /\ pc \in {"build_model", "summary_hyperparameter", "tune_model"}
  /\ err' = "TrialError"
  /\ trials' = <<>>
  /\ trial' = <<>>
  /\ pc' = "idle"
  /\ UNCHANGED <<ctor, self, calls, csv, ret, evalLog, steps, pre>>

\* lines 137-138: fmin returns trials.argmin, bound to self.best_result;
\* with no trial at all it raises
FminReturn ==
  /\ pc = "fmin"
  /\ Len(trials) >= self.max_evals
  /\ IF Len(trials) = 0
       THEN /\ err' = "Exception"
            /\ pc' = "idle"
            /\ self' = self
       ELSE /\ self' = [best_result |-> Argmin(trials)] @@ self
            /\ pc' = "table"
            /\ err' = err
  /\ UNCHANGED <<ctor, calls, trials, trial, csv, ret, evalLog, steps, pre>>

\* lines 143-150: the row of the results table for trial number idx
\* (RowRaw: the row without the space_eval of line 146)
RowRaw(space, idx, t) ==
  LET translated_eval == space_eval_raw(space, FirstOfEach(t.misc.vals))
  IN [c \in {"iteration", "loss"} \cup DOMAIN space |->
        CASE c = "iteration" -> idx
          [] c = "loss" -> t.result.loss
          [] OTHER -> translated_eval[c]]
Row(space, idx, t) ==
  LET translated_eval == space_eval(space, FirstOfEach(t.misc.vals))
  IN [c \in {"iteration", "loss"} \cup DOMAIN space |->
        CASE c = "iteration" -> idx
          [] c = "loss" -> t.result.loss
          [] OTHER -> translated_eval[c]]

\* lines 140-158: the table of this call's trials, written to trials.csv
WriteTable ==
  /\ pc = "table"
  /\ csv' = [exists |-> TRUE,
             rows |-> [i \in 1..Len(trials) |->
                         Row(self.search_space, i - 1, trials[i])]]
  /\ trials' = <<>>
  /\ pc' = "idle"
  /\ UNCHANGED <<ctor, self, err, calls, trial, ret, evalLog, steps, pre>>

\* lines 160-162
return_best ==
  /\ pc = "idle"
  /\ ret' = IF Bound("best_result")
              THEN [called |-> TRUE, raised |-> FALSE,
                    value |-> <<space_eval(self.search_space, self.best_result)>>]
              ELSE [called |-> TRUE, raised |-> TRUE, value |-> <<>>]
  /\ UNCHANGED <<ctor, pc, self, err, calls, trials, trial, csv, evalLog, steps, pre>>

Run ==
  \/ optimize \/ FminSuggest \/ get_loss \/ build_model \/ summary_hyperparameter
  \/ tune_model \/ TrialFails \/ FminReturn \/ WriteTable \/ return_best

Next == Construct \/ Run

\* an optimizer's whole life: construction, then optimize() and return_best()
Spec == Init /\ [][Next]_vars

\* construction alone, for every name of ModelArgs
SpecConstruct == InitConstruct /\ [][Construct]_vars

\* ---------------------------------------------------------- properties
\* the spellings of ModelArgs that are denylisted when case is ignored
DenylistedArgs ==
  {"tucker", "TuckER", "tucker_v2", "Tucker_V2", "conve", "convkb", "ConvKB",
   "proje_pointwise"}

\* the keys of modelMap that are not on the denylist
TunableKeys ==
  {"complex", "hole", "distmult", "kg2e", "ntn", "rescal", "rotate", "slm",
   "sme", "transd", "transe", "transg", "transh", "transm", "transr"}

\* the installation resolves every module the constructor imports
Installed == env.modelOk /\ env.configOk /\ env.hypOk

ConstructorOver == pc \in {"raised", "idle"}

\* C1: for a denylisted model name, in any letter case, the constructor raises
\* Exception, and it never gets past the denylist test: nothing (args,
\* knowledge graph, model class, config class, trainer, search space) is ever
\* bound on the optimizer.
C1_DenylistedRaisesFirst ==
  args.model \in DenylistedArgs =>
    /\ pc \in {"init_check", "raised"}
    /\ DOMAIN self = {}
    /\ out = <<>>
    /\ (pc = "raised" => err = "Exception")

C1_Witness ==
  args.model = "TuckER" /\ pc = "raised" /\ err = "Exception" /\ DOMAIN self = {}

\* C2 as stated: for every key of modelMap (the names the "Select from"
\* message stands for), on a working installation, the constructor ends
\* without raising, with a trainer, a search space and max_evals bound.
C2_EveryKeyConstructs ==
  (args.model \in DOMAIN modelMap /\ Installed /\ ConstructorOver) =>
    /\ pc = "idle"
    /\ err = "None"
    /\ {"trainer", "search_space", "max_evals"} \subseteq DOMAIN self

\* C2 as amended: for every key of modelMap that is not on the denylist, on a
\* working installation, the constructor ends without raising, with a trainer,
\* a search space and max_evals bound.
C2_TunableKeyConstructs ==
  (args.model \in TunableKeys /\ Installed /\ ConstructorOver) =>
    /\ pc = "idle"
    /\ err = "None"
    /\ {"trainer", "search_space", "max_evals"} \subseteq DOMAIN self
    /\ self.search_space = env.space
    /\ self.max_evals = (IF args.debug THEN 1 ELSE args.max_number_trials)

C2_Witness ==
  /\ args.model = "transr" /\ Installed /\ pc = "idle" /\ err = "None"
  /\ {"trainer", "search_space", "max_evals"} \subseteq DOMAIN self

\* C3: for a name that is not denylisted and does not resolve (no key of the
\* maps, or its model module cannot be imported), the constructor does not
\* raise: it prints the message listing the supported names and runs to its
\* end, leaving no model_obj bound.
C3_UnresolvedIsCaught ==
  (/\ args.model \notin DenylistedArgs
   /\ (args.model \in {"transx", "HolE2"} \/ ~env.modelOk)) =>
    /\ pc # "raised"
    /\ (pc = "idle" => /\ Len(out) = 1
                       /\ out[1].names = modelMapValues
                       /\ "model_obj" \notin DOMAIN self)

\* the number of evaluations one optimize() call is to make
ExpectedEvals == IF args.debug THEN 1 ELSE args.max_number_trials

\* the search of the current optimize() call is over, no trial having failed
SearchOver == pc = "fmin" /\ Len(trials) >= self.max_evals

\* C4: an optimize() call never invokes get_loss more than once in debug mode
\* nor more than max_number_trials times otherwise, and when its search ends
\* without a failed trial it has invoked it exactly that many times.
C4_EvaluationCount ==
  /\ Len(evalLog) <= ExpectedEvals
  /\ (SearchOver \/ pc = "table") => Len(evalLog) = ExpectedEvals

C4_Witness ==
  /\ args.debug /\ args.max_number_trials = MaxTrials /\ calls = MaxCalls
  /\ pc = "table" /\ Len(evalLog) = 1

\* the last optimize() call has completed
Completed == pc = "idle" /\ calls > 0 /\ err = "None"

\* C5: when optimize() has completed, trials.csv has one row per get_loss
\* invocation of that call, numbered 0, 1, ... in evaluation order, and row i
\* holds the point get_loss was called with in evaluation i and the loss that
\* evaluation returned; so too on a second call.
C5_TableMatchesEvaluations ==
  Completed =>
    /\ csv.exists
    /\ Len(csv.rows) = Len(evalLog)
    /\ \A i \in 1..Len(evalLog) :
         /\ DOMAIN csv.rows[i] = {"iteration", "loss"} \cup DOMAIN env.space
         /\ csv.rows[i].iteration = i - 1
         /\ csv.rows[i].loss = evalLog[i].loss
         /\ \A k \in DOMAIN env.space : csv.rows[i][k] = evalLog[i].params[k]

C5_Witness ==
  /\ Completed /\ calls = 2 /\ pre.csv.exists /\ csv # pre.csv
  /\ Len(csv.rows) = 2 /\ Len(pre.csv.rows) = 2
  /\ "epochs" \in DOMAIN csv.rows[1] /\ csv.rows[1].epochs = 10
  /\ csv.rows[1].margin # csv.rows[2].margin

\* C6: a point return_best() returns has exactly the names of the search
\* space, each with a value its distribution produces (an option of a choice,
\* not the index of the option).
C6_BestWithinSpace ==
  ret.value # <<>> =>
    /\ DOMAIN ret.value[1] = DOMAIN env.space
    /\ \A k \in DOMAIN env.space : ret.value[1][k] \in Produces(env.space[k])

C6_Witness ==
  /\ ret.called /\ ret.value # <<>> /\ "save_model" \in DOMAIN ret.value[1]
  /\ ret.value[1].save_model = True /\ ret.value[1].L1_flag = False

TrainerRunning == pc \in {"build_model", "summary_hyperparameter", "tune_model"}

Config == self.trainer.config

\* C7: while a trial's build_model, summary_hyperparameter or tune_model runs,
\* the configuration has disp_result, disp_summary and save_model false, and in
\* debug mode epochs is 1 both as attribute and in the hyperparameters mapping,
\* whatever the sampled point contains.
C7_ForcedSettings ==
  TrainerRunning =>
    /\ Config.attrs["disp_result"] = False
    /\ Config.attrs["disp_summary"] = False
    /\ Config.attrs["save_model"] = False
    /\ args.debug => /\ Config.attrs["epochs"] = 1
                     /\ Config.hyperparameters["epochs"] = 1

C7_Witness ==
  /\ pc = "build_model" /\ args.debug /\ calls = 2
  /\ "epochs" \in DOMAIN Params /\ Params.epochs = 10
  /\ Config.attrs["epochs"] = 1 /\ Config.hyperparameters["epochs"] = 1

TrialSteps == <<"copy", "build_model", "summary_hyperparameter", "tune_model">>

\* C8: the steps of an optimize() call are the four steps of a trial, in
\* order, trial after trial; a point is sampled only when every earlier trial
\* has returned its loss; and when a step fails optimize() is over with that
\* failure, the failed trial being the last one started, with trials.csv and
\* the stored best result as they were when optimize() was called.
C8_SequentialNoRetry ==
  /\ \A i \in 1..Len(steps) : steps[i] = TrialSteps[((i - 1) % 4) + 1]
  /\ pc \in {"fmin", "get_loss"} =>
       /\ Len(steps) = 4 * Len(trials)
       /\ Len(evalLog) = Len(trials)
       /\ \A i \in 1..Len(trials) : trials[i].result.status = "ok"
  /\ TrainerRunning => Len(evalLog) = Len(trials) + 1
  /\ err = "TrialError" =>
       /\ pc = "idle"
       /\ trial = <<>>
       /\ Len(evalLog) = (Len(steps) \div 4) + 1
       /\ csv = pre.csv
       /\ pre.best_result = (IF Bound("best_result") THEN <<self.best_result>>
                             ELSE <<>>)

C8_Witness ==
  /\ err = "TrialError" /\ pc = "idle" /\ calls = 2 /\ pre.csv.exists
  /\ Len(evalLog) = 2 /\ Len(steps) = 6

\* the value trial k's tune_model is to see for name k: the sampled one,
\* but 1 for epochs in debug mode
SampledFor(k) == IF k = "epochs" /\ args.debug THEN 1 ELSE Params[k]

LeastLoss == Min({csv.rows[i].loss : i \in 1..Len(csv.rows)})

\* C10: return_best() returns a point only when an optimize() call has
\* completed, and the point is then that of a row of trials.csv whose loss is
\* the least of the loss column; with no completed optimize() it raises.
C10_BestIsOfCompletedSearch ==
  ret.called =>
    IF csv.exists
      THEN /\ ~ret.raised
           /\ ret.value # <<>>
           /\ \E i \in 1..Len(csv.rows) :
                /\ csv.rows[i].loss = LeastLoss
                /\ \A k \in DOMAIN env.space : csv.rows[i][k] = ret.value[1][k]
      ELSE ret.raised /\ ret.value = <<>>

C10_Witness ==
  /\ ret.called /\ ~ret.raised /\ Len(csv.rows) = 2
  /\ csv.rows[2].loss < csv.rows[1].loss
  /\ \E k \in DOMAIN env.space : csv.rows[1][k] # csv.rows[2][k]
  /\ \A k \in DOMAIN env.space : csv.rows[2][k] = ret.value[1][k]
====
